---- MODULE Spec2Model ----
(***************************************************************************)
(* DjVusep Tailor (src/djvusep_taylor.py): a directory of page images is   *)
(* converted page by page on a thread pool and the pages are assembled     *)
(* into one DjVu document with djvm.                                       *)
(*                                                                         *)
(* File names are sequences of code points, so that sorted(), endswith()   *)
(* and os.path.splitext() are computed as Python computes them.  A path is *)
(* a record [dir, name] (os.path.join of a directory and a name).          *)
(***************************************************************************)
EXTENDS Integers, Sequences, FiniteSets, TLC

\* Bounds of the model: top-level files drawn into the input directory, and
\* the largest --threads value tried.
MaxFiles == 2
MaxThreads == 2

----------------------------------------------------------------------------
(* Names *)

TifExt == <<46, 116, 105, 102>>                                  \* ".tif"
DjvuExt == <<46, 100, 106, 118, 117>>                            \* ".djvu"
N_1 == <<49>> \o TifExt                                          \* "1.tif"
N_10 == <<49, 48>> \o TifExt                                     \* "10.tif"
N_2 == <<50>> \o TifExt                                          \* "2.tif"
N_a == <<97>> \o TifExt                                          \* "a.tif"
N_page1 == <<112, 97, 103, 101, 49>> \o TifExt                   \* "page1.tif"
N_page2 == <<112, 97, 103, 101, 50>> \o TifExt                   \* "page2.tif"
N_page3 == <<112, 97, 103, 101, 51>> \o TifExt                   \* "page3.tif"
N_background == <<98, 97, 99, 107, 103, 114, 111, 117, 110, 100>> \* "background"
N_foreground == <<102, 111, 114, 101, 103, 114, 111, 117, 110, 100>> \* "foreground"
N_output == <<111, 117, 116, 112, 117, 116>> \o DjvuExt          \* "output.djvu"
N_1_djvu == <<49>> \o DjvuExt                                    \* "1.djvu"
N_dot == TifExt                                                  \* ".tif"
N_dot_tif == TifExt \o TifExt                                    \* ".tif.tif"

\* os.path.join(dir, name)
Join(dir, name) == [dir |-> dir, name |-> name]

inputdir == "inputdir"
background_dir == "inputdir/background"
foreground_dir == "inputdir/foreground"
temp_dir == "temp_dir"

----------------------------------------------------------------------------
(* Python built-ins used by the program *)

\* str.__lt__: code-point lexicographic order
RECURSIVE LexLess(_, _)
LexLess(a, b) ==
    IF a = <<>> THEN b # <<>>
    ELSE IF b = <<>> THEN FALSE
    ELSE IF a[1] # b[1] THEN a[1] < b[1]
    ELSE LexLess(Tail(a), Tail(b))

\* sorted(S) for a set of distinct names
RECURSIVE Sorted(_)
Sorted(S) ==
    IF S = {} THEN <<>>
    ELSE LET m == CHOOSE x \in S : \A y \in S \ {x} : LexLess(x, y)
         IN  <<m>> \o Sorted(S \ {m})

\* os.listdir(d) on the file system fs
Listdir(fs, d) == {p.name : p \in {q \in fs : q.dir = d}}

\* str.endswith
EndsWith(s, suf) ==
    /\ Len(s) >= Len(suf)
    /\ SubSeq(s, Len(s) - Len(suf) + 1, Len(s)) = suf

\* os.path.splitext(name)[0]: cut at the last dot, unless only dots precede it
SplitextRoot(s) ==
    LET dots == {i \in 1..Len(s) : s[i] = 46}
        d == IF dots = {} THEN 0 ELSE CHOOSE i \in dots : \A j \in dots : j <= i
    IN  IF d > 0 /\ \E i \in 1..(d - 1) : s[i] # 46
        THEN SubSeq(s, 1, d - 1)
        ELSE s

\* list.index(x)
Index(seq, x) ==
    CHOOSE i \in 1..Len(seq) : seq[i] = x /\ \A j \in 1..(i - 1) : seq[j] # x

Front(seq) == SubSeq(seq, 1, Len(seq) - 1)

\* list.sort(key=lambda x: order.index(x[0])): stable, ascending by key
InsertByKey(srt, x, order) ==
    LET k == Index(order, x[1])
        n == Cardinality({i \in 1..Len(srt) : Index(order, srt[i][1]) <= k})
    IN  SubSeq(srt, 1, n) \o <<x>> \o SubSeq(srt, n + 1, Len(srt))

RECURSIVE SortPages(_, _)
SortPages(pgs, order) ==
    IF pgs = <<>> THEN <<>>
    ELSE InsertByKey(SortPages(Front(pgs), order), pgs[Len(pgs)], order)

\* str.format: tmpl is a sequence of literals [lit |-> ..] and placeholders
\* [hole |-> TRUE]; more placeholders than arguments raises IndexError
Holes(tmpl) == {i \in 1..Len(tmpl) : tmpl[i] = [hole |-> TRUE]}

Format(tmpl, args) ==
    IF Cardinality(Holes(tmpl)) > Len(args)
    THEN [raised |-> TRUE, text |-> <<[lit |-> "IndexError: Replacement index out of range"]>>]
    ELSE [raised |-> FALSE,
          text |-> [i \in 1..Len(tmpl) |->
                      IF i \in Holes(tmpl)
                      THEN args[Cardinality({j \in Holes(tmpl) : j <= i})]
                      ELSE tmpl[i]]]

----------------------------------------------------------------------------
(* External processes *)

\* What an external program may do when run: it cannot be launched, it exits
\* with 0, or it exits with a non-zero code and a text on standard error.
ProcBehaviours ==
    { [launched |-> FALSE, returncode |-> -1, stderr |-> ""],
      [launched |-> TRUE, returncode |-> 0, stderr |-> ""],
      [launched |-> TRUE, returncode |-> 1, stderr |-> "tool: error"] }

\* Standard output of a program that exits with 0, by role.
Stdout(command, input_data) ==
    IF command.prog = "tifftopnm" THEN <<[pnm |-> command.paths[1]]>>
    ELSE IF command.prog = "pbmtodjvurle" THEN <<[rle |-> input_data]>>
    ELSE <<>>

\* run_command with the test of the return code (line 68) lost: the output
\* of a process that exited with a non-zero code is returned as if it succeeded
run_command_unchecked(command, input_data, proc) ==
    IF ~proc.launched
    THEN [raised |-> TRUE,
          exc |-> [type |-> "CommandError", message |-> <<[lit |-> "OSError"]>>, stderr |-> ""],
          stdout |-> <<>>]
    ELSE [raised |-> FALSE, exc |-> [type |-> "none"], stdout |-> Stdout(command, input_data)]

\* run_command(command, input_data) when the process behaves as proc.  The
\* whole body is inside try/except Exception: the str.format of line 76 (three
\* placeholders, two arguments) raises, and whatever is raised inside the try,
\* a CommandError included, is replaced by CommandError(..., "") at line 79.
run_command(command, input_data, proc) ==
    LET wrap(e) == [raised |-> TRUE,
                    exc |-> [type |-> "CommandError",
                             message |-> Format(<<[lit |-> "Error running command "], [hole |-> TRUE],
                                                   [lit |-> ": "], [hole |-> TRUE]>>,
                                                 <<[cmd |-> command], [exc |-> e]>>).text,
                             stderr |-> ""],
                    stdout |-> <<>>]
        msg == Format(<<[lit |-> "Command "], [hole |-> TRUE],
                        [lit |-> " failed with return code "], [hole |-> TRUE],
                        [lit |-> ": "], [hole |-> TRUE]>>,
                      <<[cmd |-> command], [int |-> proc.returncode]>>)
    IN  IF ~proc.launched
        THEN wrap(<<[lit |-> "OSError"]>>)
        ELSE IF proc.returncode # 0
        THEN wrap(msg.text)
        ELSE [raised |-> FALSE, exc |-> [type |-> "none"], stdout |-> Stdout(command, input_data)]

----------------------------------------------------------------------------
(* Input directories *)

Modes == {"1", "L", "RGB", "P"}      \* PIL modes; "P" stands for every other mode

\* A top-level file with the mode PIL reports for it and whether a file of the
\* same name exists under foreground/ and background/.
Entry(n, m, f, b) == [name |-> n, mode |-> m, fg |-> f, bg |-> b]

CanonEntries ==
    { Entry(N_1, "1", FALSE, FALSE), Entry(N_10, "RGB", FALSE, FALSE),
      Entry(N_2, "L", TRUE, TRUE), Entry(N_a, "P", FALSE, FALSE) }

\* One file in every combination of mode and foreground/background files
VariedEntries == {Entry(N_1, m, f, b) : m \in Modes, f \in BOOLEAN, b \in BOOLEAN}

EntrySets ==
    {S \in SUBSET CanonEntries : Cardinality(S) <= MaxFiles}
        \cup {{v} : v \in VariedEntries}

\* The files of a directory built from a set of entries; a subdirectory is a
\* directory entry of inputdir as soon as it holds a file.
MkDir(S) ==
    [fs |-> {Join(inputdir, e.name) : e \in S}
            \cup {Join(foreground_dir, e.name) : e \in {x \in S : x.fg}}
            \cup {Join(background_dir, e.name) : e \in {x \in S : x.bg}}
            \cup (IF \E e \in S : e.fg THEN {Join(inputdir, N_foreground)} ELSE {})
            \cup (IF \E e \in S : e.bg THEN {Join(inputdir, N_background)} ELSE {}),
     mode |-> {<<e.name, e.mode>> : e \in S}]

\* page1.tif (1-bit) and page2.tif (RGB) at the top level, page3.tif only
\* under foreground/ and background/
ScenarioDir ==
    [fs |-> {Join(inputdir, N_page1), Join(inputdir, N_page2),
             Join(inputdir, N_foreground), Join(inputdir, N_background),
             Join(foreground_dir, N_page3), Join(background_dir, N_page3)},
     mode |-> {<<N_page1, "1">>, <<N_page2, "RGB">>}]

\* Two 1-bit files named ".tif" and ".tif.tif"
DotDir ==
    [fs |-> {Join(inputdir, N_dot), Join(inputdir, N_dot_tif)},
     mode |-> {<<N_dot, "1">>, <<N_dot_tif, "1">>}]

Dirs == {MkDir(S) : S \in EntrySets} \cup {ScenarioDir, DotDir}

\* --outputfile: by default inputdir/output.djvu (lines 98-99); for the
\* directories of at most one file also -o temp_dir/1.djvu, a path inside the
\* temporary directory given with --temp-dir
OutputChoices(d) ==
    {Join(inputdir, N_output)}
        \cup (IF Cardinality(d.mode) <= 1 THEN {Join(temp_dir, N_1_djvu)} ELSE {})

----------------------------------------------------------------------------
(* State *)

VARIABLES
    outputfile,  \* --outputfile, or its default
    threads,     \* --threads
    fs,          \* the paths that exist
    imgmode,     \* Image.open(inputdir/name).mode, as pairs <<name, mode>>
    pc,          \* where main() is
    prompted,    \* click.confirm was shown
    filenames,   \* sorted(os.listdir(inputdir)) of line 175
    futures,     \* futures[i]: the unit of work of filenames[i]
    asc,         \* the as_completed iterator; yielded: the futures given so far
    pages,       \* the list pages
    calls,       \* the external commands main() has run
    exc          \* the exception main() ended with

vars == <<outputfile, threads, fs, imgmode, pc, prompted, filenames, futures, asc, pages, calls, exc>>

NoExc == [type |-> "none"]
None == <<>>

\* The state when main is entered, for an input directory among D
InitFrom(D) ==
    /\ threads \in 1..MaxThreads
    /\ \E d \in D, old \in BOOLEAN :
          /\ outputfile \in OutputChoices(d)
          /\ fs = d.fs \cup (IF old THEN {outputfile} ELSE {})
          /\ imgmode = d.mode
    /\ pc = "begin"
    /\ prompted = FALSE
    /\ filenames = <<>>
    /\ futures = <<>>
    /\ asc = [started |-> FALSE, finished |-> {}, queue |-> <<>>, yielded |-> <<>>]
    /\ pages = <<>>
    /\ calls = <<>>
    /\ exc = NoExc

Init == InitFrom(Dirs)

\* Two directories that between them hold a bitonal, a photo, a separated and
\* an unsupported page and the two subdirectories
LiveDirs ==
    { MkDir({Entry(N_1, "1", FALSE, FALSE), Entry(N_10, "RGB", FALSE, FALSE)}),
      MkDir({Entry(N_2, "L", TRUE, TRUE), Entry(N_a, "P", FALSE, FALSE)}) }

----------------------------------------------------------------------------
(* process_image *)

N_temp == <<100, 106, 118, 117, 95, 116, 101, 109, 112, 95>>     \* "djvu_temp_"

ModeOf(name) == CHOOSE m \in Modes : <<name, m>> \in imgmode

page_name(filename) == SplitextRoot(filename)
file_path(filename) == Join(inputdir, filename)
background_path(filename) == Join(background_dir, page_name(filename) \o TifExt)
foreground_path(filename) == Join(foreground_dir, page_name(filename) \o TifExt)
output_path(filename) == Join(temp_dir, page_name(filename) \o DjvuExt)

\* tempfile.NamedTemporaryFile(prefix="djvu_temp_", dir=temp_dir) of unit i:
\* a fresh name, distinct for every unit
temp_file(i) == Join(temp_dir, N_temp \o <<48 + i>>)

\* Classify with the pair test of line 130 weakened to "either file exists"
Classify_either(filename) ==
    IF ~EndsWith(filename, TifExt) THEN "none"
    ELSE IF background_path(filename) \in fs \/ foreground_path(filename) \in fs
    THEN "separated"
    ELSE IF ModeOf(filename) = "1" THEN "bitonal"
    ELSE IF ModeOf(filename) = "RGB" \/ ModeOf(filename) = "L" THEN "photo"
    ELSE "none"

\* Classify with the test of line 157 dropped: every mode but "1" is a photo
Classify_any_mode(filename) ==
    IF ~EndsWith(filename, TifExt) THEN "none"
    ELSE IF background_path(filename) \in fs /\ foreground_path(filename) \in fs
    THEN "separated"
    ELSE IF ModeOf(filename) = "1" THEN "bitonal"
    ELSE "photo"

\* Classify with the test of line 124 lost: an entry of any name is encoded
\* as a single bitonal file
Classify_every_entry(filename) ==
    IF ~EndsWith(filename, TifExt) THEN "bitonal"
    ELSE IF background_path(filename) \in fs /\ foreground_path(filename) \in fs
    THEN "separated"
    ELSE IF ModeOf(filename) = "1" THEN "bitonal"
    ELSE IF ModeOf(filename) = "RGB" \/ ModeOf(filename) = "L" THEN "photo"
    ELSE "none"

\* The branch process_image takes for a file name (lines 124, 130, 151, 157)
Classify(filename) ==
    IF ~EndsWith(filename, TifExt) THEN "none"
    ELSE IF background_path(filename) \in fs /\ foreground_path(filename) \in fs
    THEN "separated"
    ELSE IF ModeOf(filename) = "1" THEN "bitonal"
    ELSE IF ModeOf(filename) = "RGB" \/ ModeOf(filename) = "L" THEN "photo"
    ELSE "none"

\* The first external command of a branch
FirstAt(kind) ==
    CASE kind = "separated" -> "bg_pnm"
      [] kind = "bitonal" -> "cjb2"
      [] kind = "photo" -> "photo_pnm"
      [] OTHER -> "return"

\* The command after a successful one
NextAt(at) ==
    CASE at = "bg_pnm" -> "fg_pnm"
      [] at = "fg_pnm" -> "fg_rle"
      [] at = "fg_rle" -> "csepdjvu"
      [] OTHER -> "return"

Cmd(prog, opts, paths) == [prog |-> prog, opts |-> opts, paths |-> paths]

\* combined_data with the two streams in the other order
combined_data_background_first(u) == u.background_pam_data \o u.foreground_rle_data

\* Line 142: the stream fed to csepdjvu
combined_data(u) == u.foreground_rle_data \o u.background_pam_data

\* The command a unit runs at a point of process_image, and its standard input
CommandAt(u, i) ==
    CASE u.at = "bg_pnm" ->
           [command |-> Cmd("tifftopnm", <<>>, <<background_path(u.filename)>>), input |-> <<>>]
      [] u.at = "fg_pnm" ->
           [command |-> Cmd("tifftopnm", <<>>, <<foreground_path(u.filename)>>), input |-> <<>>]
      [] u.at = "fg_rle" ->
           [command |-> Cmd("pbmtodjvurle", <<>>, <<>>), input |-> u.foreground_pbm_data]
      [] u.at = "csepdjvu" ->
           [command |-> Cmd("csepdjvu", <<"-d", "resolution", "-q", "cr_c44", "-">>,
                            <<output_path(u.filename)>>),
            input |-> combined_data(u)]
      [] u.at = "cjb2" ->
           [command |-> Cmd("cjb2", <<"-dpi", "resolution", "-losslevel", "cr_cjb2">>,
                            <<file_path(u.filename), output_path(u.filename)>>),
            input |-> <<>>]
      [] u.at = "photo_pnm" ->
           [command |-> Cmd("tifftopnm", <<>>, <<file_path(u.filename)>>), input |-> <<>>]
      [] u.at = "c44" ->
           [command |-> Cmd("c44", <<"-dpi", "resolution", "-slice", "cr_c44">>,
                            <<temp_file(i), output_path(u.filename)>>),
            input |-> <<>>]

Encoders == {"csepdjvu", "cjb2", "c44"}

\* TempRelease with the deletion placed after line 170 instead of in a
\* with-block: an exception skips it
TempRelease_leak(files, i, raised) == IF raised THEN files ELSE files \ {temp_file(i)}

\* Leaving the with-block of line 163: the temporary file is deleted, whether
\* the block ends normally or by an exception
TempRelease(files, i, raised) == files \ {temp_file(i)}

\* A submitted, not yet started unit
NewUnit(filename) ==
    [filename |-> filename, state |-> "PENDING", at |-> "queued", kind |-> "unknown",
     log |-> <<>>, background_pam_data |-> <<>>, foreground_pbm_data |-> <<>>,
     foreground_rle_data |-> <<>>, tiff_to_pbm_data |-> <<>>,
     result |-> None, exc |-> NoExc]

Running(futs) == {i \in 1..Len(futs) : futs[i].state = "RUNNING"}

\* IdleWorker with one worker more than --threads
IdleWorker_one_more(futs, n) == Cardinality(Running(futs)) < n + 1

\* IdleWorker with the queue dropped once main leaves the with-block by an
\* exception (shutdown(cancel_futures=True) without completing the futures)
IdleWorker_cancels(futs, n) ==
    Cardinality(Running(futs)) < n /\ pc \notin {"shutdown", "failed"}

\* ThreadPoolExecutor(max_workers=threads): a worker thread is free
IdleWorker(futs, n) == Cardinality(Running(futs)) < n

\* A future becomes FINISHED; the waiter of a started as_completed is told
Finish(i, u) ==
    /\ futures' = [futures EXCEPT ![i] = [u EXCEPT !.state = "FINISHED", !.at = "return"]]
    /\ asc' = IF asc.started THEN [asc EXCEPT !.queue = Append(@, i)] ELSE asc

\* A worker takes the oldest queued unit and runs process_image up to its first
\* external command; a file name that takes no branch returns None at once.
Start(i) ==
    /\ i \in 1..Len(futures)
    /\ futures[i].state = "PENDING"
    /\ \A j \in 1..(i - 1) : futures[j].state # "PENDING"
    /\ IdleWorker(futures, threads)
    /\ LET kind == Classify(futures[i].filename)
           u == [futures[i] EXCEPT !.kind = kind, !.at = FirstAt(kind)]
       IN  IF kind = "none"
           THEN Finish(i, u) /\ fs' = fs
           ELSE /\ futures' = [futures EXCEPT ![i] = [u EXCEPT !.state = "RUNNING"]]
                /\ fs' = IF kind = "photo" THEN fs \cup {temp_file(i)} ELSE fs
                /\ asc' = asc
    /\ UNCHANGED <<outputfile, threads, imgmode, pc, prompted, filenames, pages, calls, exc>>

\* The unit's external command exits: process_image goes on to its next
\* command, returns (filename, output_path), or ends with the CommandError.
Step(i) ==
    /\ i \in 1..Len(futures)
    /\ futures[i].state = "RUNNING"
    /\ \E proc \in ProcBehaviours :
         LET u == futures[i]
             c == CommandAt(u, i)
             r == run_command(c.command, c.input, proc)
             logged == [u EXCEPT !.log = Append(@, [command |-> c.command, input |-> c.input,
                                                    proc |-> proc])]
             stored == [logged EXCEPT
                          !.background_pam_data = IF u.at = "bg_pnm" THEN r.stdout ELSE @,
                          !.foreground_pbm_data = IF u.at = "fg_pnm" THEN r.stdout ELSE @,
                          !.foreground_rle_data = IF u.at = "fg_rle" THEN r.stdout ELSE @,
                          !.tiff_to_pbm_data = IF u.at = "photo_pnm" THEN r.stdout ELSE @]
             written == IF c.command.prog \in Encoders
                        THEN fs \cup {output_path(u.filename)}
                        ELSE fs
         IN  IF r.raised
             THEN /\ Finish(i, [logged EXCEPT !.exc = r.exc])
                  /\ fs' = IF u.kind = "photo" THEN TempRelease(fs, i, TRUE) ELSE fs
             ELSE IF u.at = "photo_pnm"
             THEN /\ futures' = [futures EXCEPT ![i] = [stored EXCEPT !.at = "c44"]]
                  /\ fs' = fs \cup {temp_file(i)}
                  /\ asc' = asc
             ELSE IF NextAt(u.at) = "return"
             THEN /\ Finish(i, [stored EXCEPT !.result = <<u.filename, output_path(u.filename)>>])
                  /\ fs' = IF u.kind = "photo" THEN TempRelease(written, i, FALSE) ELSE written
             ELSE /\ futures' = [futures EXCEPT ![i] = [stored EXCEPT !.at = NextAt(u.at)]]
                  /\ fs' = fs
                  /\ asc' = asc
    /\ UNCHANGED <<outputfile, threads, imgmode, pc, prompted, filenames, pages, calls, exc>>

----------------------------------------------------------------------------
(* main *)

\* NeedsConfirm with the test of line 102 dropped: no confirmation is asked
NeedsConfirm_never(files) == FALSE

\* Line 102: the output file exists, the user is asked to confirm
NeedsConfirm(files) == outputfile \in files

\* Lines 96-111: the confirmation when the output file exists (declining
\* aborts the run), then the list line 175 iterates over.
Begin ==
    /\ pc = "begin"
    /\ IF NeedsConfirm(fs)
       THEN /\ prompted' = TRUE
            /\ \E answer \in BOOLEAN :
                 IF answer
                 THEN pc' = "submit" /\ exc' = exc
                 ELSE pc' = "aborted" /\ exc' = [type |-> "Abort"]
       ELSE pc' = "submit" /\ UNCHANGED <<prompted, exc>>
    /\ filenames' = Sorted(Listdir(fs, inputdir))
    /\ UNCHANGED <<outputfile, threads, fs, imgmode, futures, asc, pages, calls>>

\* Line 175: executor.submit(process_image, filename), one name after another
Submit ==
    /\ pc = "submit"
    /\ Len(futures) < Len(filenames)
    /\ futures' = Append(futures, NewUnit(filenames[Len(futures) + 1]))
    /\ UNCHANGED <<outputfile, threads, fs, imgmode, pc, prompted, filenames, asc, pages, calls, exc>>

\* Lines 176-183: as_completed starts: the futures already finished are given
\* first (in no particular order), the others as they finish.
EnterLoop ==
    /\ pc = "submit"
    /\ Len(futures) = Len(filenames)
    /\ asc' = [started |-> TRUE,
               finished |-> {i \in 1..Len(futures) : futures[i].state = "FINISHED"},
               queue |-> <<>>, yielded |-> <<>>]
    /\ pc' = "loop"
    /\ UNCHANGED <<outputfile, threads, fs, imgmode, prompted, filenames, futures, pages, calls, exc>>

\* The next future as_completed yields
Yields(i) ==
    \/ i \in asc.finished
    \/ asc.finished = {} /\ asc.queue # <<>> /\ i = Head(asc.queue)

\* ResultRaises with the exception of a unit swallowed
ResultRaises_never(fut) == FALSE

\* Line 184: future.result() raises the exception the unit ended with
ResultRaises(fut) == fut.exc # NoExc

\* Lines 183-187: one turn of the loop.  future.result() raises the unit's
\* exception, which leaves the loop and the with-block.
Collect(i) ==
    /\ pc = "loop"
    /\ Yields(i)
    /\ asc' = [asc EXCEPT !.finished = @ \ {i},
                          !.queue = IF i \in asc.finished THEN @ ELSE Tail(@),
                          !.yielded = Append(@, i)]
    /\ IF ResultRaises(futures[i])
       THEN /\ exc' = futures[i].exc
            /\ pc' = "shutdown"
            /\ pages' = pages
       ELSE /\ pages' = IF futures[i].result # None THEN Append(pages, futures[i].result) ELSE pages
            /\ UNCHANGED <<pc, exc>>
    /\ UNCHANGED <<outputfile, threads, fs, imgmode, prompted, filenames, futures, calls>>

\* The loop is over when every future has been yielded; the with-block is left
\* (executor.shutdown finds every unit finished).
LeaveLoop ==
    /\ pc = "loop"
    /\ Len(asc.yielded) = Len(futures)
    /\ pc' = "assemble"
    /\ UNCHANGED <<outputfile, threads, fs, imgmode, prompted, filenames, futures, asc, pages, calls, exc>>

\* ShutdownReturns without the wait (shutdown(wait=False))
ShutdownReturns_at_once(futs) == TRUE

\* Line 174, leaving the with-block: executor.shutdown(wait=True) returns when
\* no unit is queued or running
ShutdownReturns(futs) == \A i \in 1..Len(futs) : futs[i].state = "FINISHED"

\* Leaving the with-block by an exception: executor.shutdown(wait=True) returns
\* when every unit, queued ones included, has run; then main ends with exc.
Shutdown ==
    /\ pc = "shutdown"
    /\ ShutdownReturns(futures)
    /\ pc' = "failed"
    /\ UNCHANGED <<outputfile, threads, fs, imgmode, prompted, filenames, futures, asc, pages, calls, exc>>

\* OrderedPages without the sort of line 190: the order of collection
OrderedPages_unsorted(pgs, files) == pgs

\* Line 190: the pairs (filename, path) in the order of the pages handed to
\* djvm
OrderedPages(pgs, files) == SortPages(pgs, Sorted(Listdir(files, inputdir)))

\* Line 191: the paths of the pairs
page_paths(pgs) == [k \in 1..Len(pgs) |-> pgs[k][2]]

\* HasPages with the test of line 194 dropped
HasPages_always(pgs) == TRUE

\* Line 194: whether anything is assembled
HasPages(pgs) == pgs # <<>>

\* Lines 189-197: sort; with pages, remove the old output file before djvm
\* runs; without, log the error and end
Assemble ==
    /\ pc = "assemble"
    /\ IF HasPages(OrderedPages(pages, fs))
       THEN pc' = "djvm" /\ fs' = fs \ {outputfile}
       ELSE pc' = "nopages" /\ fs' = fs
    /\ pages' = OrderedPages(pages, fs)
    /\ UNCHANGED <<outputfile, threads, imgmode, prompted, filenames, futures, asc, calls, exc>>

\* Lines 191-202: djvm -c outputfile page..., then the temporary folder is
\* cleaned up unless it is kept (--keep-temp, or --temp-dir given)
Djvm ==
    /\ pc = "djvm"
    /\ \E proc \in ProcBehaviours, cleanup \in BOOLEAN :
         LET command == Cmd("djvm", <<"-c">>, <<outputfile>> \o page_paths(pages))
             r == run_command(command, <<>>, proc)
         IN  /\ calls' = Append(calls, [command |-> command, input |-> <<>>, proc |-> proc])
             /\ IF r.raised
                THEN /\ exc' = r.exc
                     /\ pc' = "failed"
                     /\ fs' = fs
                ELSE /\ exc' = exc
                     /\ pc' = "done"
                     /\ fs' = IF cleanup
                              THEN {p \in fs : p.dir # temp_dir} \cup {outputfile}
                              ELSE fs \cup {outputfile}
    /\ UNCHANGED <<outputfile, threads, imgmode, prompted, filenames, futures, asc, pages>>

Next ==
    \/ Begin
    \/ Submit
    \/ EnterLoop
    \/ \E i \in 1..Len(futures) : Start(i)
    \/ \E i \in 1..Len(futures) : Step(i)
    \/ \E i \in 1..Len(futures) : Collect(i)
    \/ LeaveLoop
    \/ Shutdown
    \/ Assemble
    \/ Djvm

Spec == Init /\ [][Next]_vars

\* The main thread and the worker threads keep running, and every external
\* process eventually exits: a step that stays possible is eventually taken.
FairSpec == InitFrom(LiveDirs) /\ [][Next]_vars /\ WF_vars(Next)

----------------------------------------------------------------------------
(* Vocabulary of the properties *)

Units == 1..Len(futures)

\* The unit returned (filename, output_path): it produced a page artifact
Produced(i) == futures[i].state = "FINISHED" /\ futures[i].result # None

\* The unit ended with a CommandError
Raised(i) == futures[i].state = "FINISHED" /\ futures[i].exc # NoExc

\* The loop of line 183 was given the future
Yielded(i) == \E k \in 1..Len(asc.yielded) : asc.yielded[k] = i

\* The programs the unit has invoked
Progs(i) == {futures[i].log[k].command.prog : k \in 1..Len(futures[i].log)}

\* The file has a same-named file under foreground/ and under background/
HasPair(filename) ==
    /\ Join(foreground_dir, filename) \in fs
    /\ Join(background_dir, filename) \in fs

\* The page paths of a djvm invocation (after "-c outputfile")
PageArgs(call) == Tail(call.command.paths)

\* The paths in the list pages
PagePaths == page_paths(pages)

\* main got past the confirmation and ran to its end
Completed == pc \in {"done", "nopages", "failed"}

\* main ran to its end and no unit of work failed
CompletedNoUnitFailed == Completed /\ \A i \in Units : ~Raised(i)

----------------------------------------------------------------------------
(* C1 *)

\* The producing units whose file name is smaller than that of unit i
ProducedBefore(i) ==
    {j \in Units : Produced(j) /\ LexLess(futures[j].filename, futures[i].filename)}

\* The page list of the one djvm invocation has one entry for every unit that
\* produced an artifact, the entries ascending in the order of the file names:
\* the artifact of the unit with k-1 producing units before it is entry k.
PagesInFilenameOrder ==
    /\ Len(calls) = 1
    /\ calls[1].command.prog = "djvm"
    /\ LET args == PageArgs(calls[1])
       IN  /\ Len(args) = Cardinality({i \in Units : Produced(i)})
           /\ \A i \in {j \in Units : Produced(j)} :
                 args[Cardinality(ProducedBefore(i)) + 1] = futures[i].result[2]

\* C1 as stated: in every completed run in which no unit failed, djvm is
\* invoked exactly once, with every produced page once, in file-name order.
C1_AlwaysOneInvocation == CompletedNoUnitFailed => PagesInFilenameOrder

\* C1 amended: in every completed run in which no unit failed and at least one
\* unit produced an artifact, djvm is invoked exactly once, with every produced
\* page exactly once and in the lexicographic order of the file names, whatever
\* the order of completion; when no unit produced an artifact, djvm is not
\* invoked at all.
C1_OrderPreservation ==
    CompletedNoUnitFailed =>
        IF \E i \in Units : Produced(i) THEN PagesInFilenameOrder ELSE calls = <<>>

\* Two pages were collected against the order of their names, and assembled
C1_Witness ==
    /\ pc = "done"
    /\ threads >= 2
    /\ \E k, l \in 1..Len(asc.yielded) :
          /\ k < l
          /\ Produced(asc.yielded[k]) /\ Produced(asc.yielded[l])
          /\ asc.yielded[k] > asc.yielded[l]

----------------------------------------------------------------------------
(* C2 *)

\* C2: at most `threads` units execute at any time, and a queued unit starts
\* only in a step taken when fewer than `threads` units are executing.
C2_BoundedConcurrency ==
    /\ [](Cardinality(Running(futures)) <= threads)
    /\ [][\A i \in Units :
             futures[i].state = "PENDING" /\ futures'[i].state # "PENDING"
                => Cardinality(Running(futures)) < threads]_vars

\* Every worker is busy and a submitted unit waits in the queue
C2_Witness ==
    /\ Cardinality(Running(futures)) = threads
    /\ \E i \in Units : futures[i].state = "PENDING"

----------------------------------------------------------------------------
(* C3 *)

\* C3: when a unit has failed, every other unit that succeeded still has its
\* result in the page list by the time the run has ended.
C3_FailureIsolation ==
    (pc = "failed" /\ \E j \in Units : Raised(j)) =>
        \A i \in Units :
            Produced(i) => \E k \in 1..Len(pages) : pages[k] = futures[i].result

----------------------------------------------------------------------------
(* C4 *)

\* A collected unit failed, or the run ended with no page to assemble
NoPageToWrite == pc = "nopages" \/ (\E i \in Units : Yielded(i) /\ Raised(i))

\* C4: the output file is removed only by a step taken after the collection
\* loop has ended with at least one page collected; and when no page succeeded
\* or a collected unit failed, a pre-existing output file is still there and
\* djvm has not been invoked.
C4_RemovalOnlyBeforeWriting ==
    /\ [][(outputfile \in fs /\ outputfile \notin fs')
            => /\ pc = "assemble"
               /\ Len(asc.yielded) = Len(futures)
               /\ \E i \in Units : Yielded(i) /\ Produced(i)]_vars
    /\ [](NoPageToWrite => calls = <<>> /\ (prompted => outputfile \in fs))

\* A pre-existing output file has been removed, djvm is about to run
C4_Witness ==
    /\ pc = "djvm"
    /\ prompted
    /\ outputfile \notin fs
    /\ pages # <<>>

----------------------------------------------------------------------------
(* C5 *)

\* A directory entry that process_image turns into a page
Qualifies(filename) ==
    /\ EndsWith(filename, TifExt)
    /\ \/ HasPair(filename)
       \/ \E m \in {"1", "L", "RGB"} : <<filename, m>> \in imgmode

NoQualifyingCandidate == \A n \in Listdir(fs, inputdir) : ~Qualifies(n)

\* C5: with no qualifying candidate in the input directory, djvm is never
\* invoked and a run that gets past the confirmation ends in "no pages".
C5_NoOpOnEmptyInput ==
    NoQualifyingCandidate =>
        /\ calls = <<>>
        /\ pc \notin {"djvm", "done", "failed", "shutdown"}

\* A run over a directory holding only skipped entries ended in "no pages"
C5_Witness ==
    /\ NoQualifyingCandidate
    /\ pc = "nopages"
    /\ Len(futures) >= 1
    /\ \A i \in Units : futures[i].state = "FINISHED"

----------------------------------------------------------------------------
(* C6 *)

IsScenario == imgmode = ScenarioDir.mode

\* The unit of a file name invoked the program
RoutedThrough(filename, prog) ==
    \E i \in Units : futures[i].filename = filename /\ prog \in Progs(i)

\* C6: in the scenario directory with two threads, a run that assembles the
\* document passes djvm the three pages page1, page2, page3 in that order,
\* page1 encoded by cjb2, page2 by c44 and page3 by csepdjvu.
C6_ScenarioThreePages ==
    (IsScenario /\ threads = 2 /\ pc = "done") =>
        /\ PageArgs(calls[1]) = <<output_path(N_page1), output_path(N_page2),
                                  output_path(N_page3)>>
        /\ RoutedThrough(N_page1, "cjb2")
        /\ RoutedThrough(N_page2, "c44")
        /\ RoutedThrough(N_page3, "csepdjvu")

----------------------------------------------------------------------------
(* C7 *)

\* The kind the classifier is specified to give a candidate
SpecifiedKind(filename) ==
    IF HasPair(filename) THEN "separated"
    ELSE IF <<filename, "1">> \in imgmode THEN "bitonal"
    ELSE IF <<filename, "L">> \in imgmode \/ <<filename, "RGB">> \in imgmode THEN "photo"
    ELSE "none"

EncoderOf(kind) ==
    CASE kind = "separated" -> "csepdjvu"
      [] kind = "bitonal" -> "cjb2"
      [] kind = "photo" -> "c44"
      [] OTHER -> "no encoder"

\* C7: every started unit of a .tif candidate has the specified kind
\* (Separated with both layer files whatever the top-level mode, else Bitonal
\* for 1-bit, else Photo for L or RGB), invokes no encoder but the one of that
\* kind, and has invoked that encoder when it returns a page.
C7_ClassificationCorrectness ==
    \A i \in Units :
        (futures[i].state # "PENDING" /\ EndsWith(futures[i].filename, TifExt)) =>
            LET k == SpecifiedKind(futures[i].filename)
            IN  /\ futures[i].kind = k
                /\ Progs(i) \cap Encoders \subseteq {EncoderOf(k)}
                /\ Produced(i) => EncoderOf(k) \in Progs(i)

\* A 1-bit top-level file with both layer files went through csepdjvu
C7_Witness ==
    \E i \in Units :
        /\ Produced(i)
        /\ HasPair(futures[i].filename)
        /\ <<futures[i].filename, "1">> \in imgmode
        /\ "csepdjvu" \in Progs(i)

----------------------------------------------------------------------------
(* C8 *)

\* A .tif candidate without both layer files whose mode is not 1, L or RGB
Unsupported(filename) ==
    /\ EndsWith(filename, TifExt)
    /\ ~HasPair(filename)
    /\ \A m \in {"1", "L", "RGB"} : <<filename, m>> \notin imgmode

\* C8: the unit of an unsupported candidate invokes no external program,
\* returns no result and raises nothing, and contributes no entry to a page
\* list: the collected list and djvm's list hold the producing units' paths
\* only.
C8_UnsupportedSkipped ==
    \A i \in Units :
        Unsupported(futures[i].filename) =>
            /\ futures[i].log = <<>>
            /\ futures[i].result = None
            /\ futures[i].exc = NoExc
            /\ futures[i].state # "RUNNING"
            /\ \A k \in 1..Len(PagePaths) :
                  \E j \in Units \ {i} : Produced(j) /\ PagePaths[k] = futures[j].result[2]
            /\ \A c \in 1..Len(calls) :
                  \A k \in 1..Len(PageArgs(calls[c])) :
                      \E j \in Units \ {i} :
                          Produced(j) /\ PageArgs(calls[c])[k] = futures[j].result[2]

\* A document was assembled from another page while an unsupported candidate
\* had been processed and collected
C8_Witness ==
    /\ pc = "done"
    /\ \E i \in Units :
          /\ Unsupported(futures[i].filename)
          /\ futures[i].state = "FINISHED"
          /\ Yielded(i)
    /\ \E j \in Units : Produced(j)

----------------------------------------------------------------------------
(* C9 *)

\* The text of an error message holds the part, directly or in the text of the
\* exception it was built from
Carries(message, part) ==
    \E k \in 1..Len(message) :
        \/ message[k] = part
        \/ /\ DOMAIN message[k] = {"exc"}
           /\ \E m \in 1..Len(message[k].exc) : message[k].exc[m] = part

\* C9: a unit's command goes on (or returns a page) only after exit code 0,
\* and after a non-zero exit code the unit ends with an error that carries the
\* command, the exit code and the standard-error text of the process.
C9_InvokerFailureContract ==
    \A i \in Units :
        \A k \in 1..Len(futures[i].log) :
            LET e == futures[i].log[k]
            IN  /\ (k < Len(futures[i].log) \/ Produced(i)) => e.proc.returncode = 0
                /\ (e.proc.launched /\ e.proc.returncode # 0) =>
                      /\ Raised(i)
                      /\ Carries(futures[i].exc.message, [cmd |-> e.command])
                      /\ Carries(futures[i].exc.message, [int |-> e.proc.returncode])
                      /\ futures[i].exc.stderr = e.proc.stderr

----------------------------------------------------------------------------
(* C10 *)

\* C10: once a Photo unit has finished, by returning its page or by a failure
\* of tifftopnm or of c44, its temporary file does not exist.
C10_PhotoTempReleased ==
    \A i \in Units :
        (futures[i].kind = "photo" /\ futures[i].state = "FINISHED") =>
            temp_file(i) \notin fs

\* A Photo unit wrote its temporary file, c44 failed, and the file is gone
C10_Witness ==
    \E i \in Units :
        /\ futures[i].kind = "photo"
        /\ Raised(i)
        /\ Len(futures[i].log) = 2
        /\ futures[i].log[2].command.prog = "c44"
        /\ temp_file(i) \notin fs

----------------------------------------------------------------------------
(* C11 *)

\* C11: whenever a unit has run csepdjvu, the standard input it gave it is
\* the output of pbmtodjvurle on the converted foreground/<name>, followed by
\* the output of tifftopnm on background/<name>, and nothing else.
C11_SeparatedStreamShape ==
    \A i \in Units :
        \A k \in 1..Len(futures[i].log) :
            futures[i].log[k].command.prog = "csepdjvu" =>
                futures[i].log[k].input =
                    <<[rle |-> <<[pnm |-> Join(foreground_dir, futures[i].filename)]>>],
                      [pnm |-> Join(background_dir, futures[i].filename)]>>

\* A Separated page was encoded
C11_Witness ==
    \E i \in Units :
        /\ Produced(i)
        /\ futures[i].kind = "separated"
        /\ Len(futures[i].log) = 4
        /\ futures[i].log[4].command.prog = "csepdjvu"
        /\ Len(futures[i].log[4].input) = 2

----------------------------------------------------------------------------
(* C12 *)

\* The loop of line 183 was given a future whose unit ended with an error
AwaitedFailure == \E i \in Units : Yielded(i) /\ Raised(i)

----------------------------------------------------------------------------
(* C13 *)

\* C13 as stated: after a failure was raised in the loop, main can end at
\* once, whatever the other units are doing.
C13_EndsWithoutWaiting == pc = "shutdown" => ENABLED Shutdown

\* C13 amended: when a failure is raised while a result is awaited, the run
\* ends with that failure only after every other unit, queued or executing,
\* has run to its end: no unit is queued or running when main has ended.
C13_EndsAfterAllUnits ==
    (pc = "failed" /\ AwaitedFailure) =>
        /\ exc # NoExc
        /\ \A i \in Units : futures[i].state = "FINISHED"

\* The failure has been raised and main waits: one unit executes, one is queued
C13_Witness ==
    /\ pc = "shutdown"
    /\ \E i \in Units : futures[i].state = "RUNNING"
    /\ \E j \in Units : futures[j].state = "PENDING"

----------------------------------------------------------------------------
(* C14 *)

\* main has ended in one of its three outcomes, and these exclude one another:
\* the document assembled by a successful djvm, no page and no djvm, or an
\* exception
Terminated ==
    \/ pc = "done" /\ exc = NoExc /\ Len(calls) = 1 /\ outputfile \in fs
    \/ pc = "nopages" /\ exc = NoExc /\ calls = <<>>
    \/ pc = "failed" /\ exc # NoExc

\* Every name of the list of line 175 has a unit, and every unit has been
\* started by a worker and has run process_image to its return or its error
AllUnitsRan ==
    /\ Len(futures) = Len(filenames)
    /\ \A i \in Units : futures[i].state = "FINISHED" /\ futures[i].kind # "unknown"

\* C14: with every external process eventually exiting, a run that starts
\* submitting units eventually has every unit started and run to completion or
\* failure, also when a unit has failed, and ends in exactly one of document
\* assembled, no pages produced, or failure.
C14_EveryUnitRunsAndMainTerminates ==
    (pc = "submit") ~> (Terminated /\ AllUnitsRan)

\* The run failed on one unit and a unit collected by nobody ran all the same
C14_Witness ==
    /\ pc = "failed"
    /\ AllUnitsRan
    /\ \E i \in Units : Raised(i) /\ Yielded(i)
    /\ \E j \in Units : ~Yielded(j) /\ futures[j].log # <<>>

----------------------------------------------------------------------------
(* C15 *)

\* C15: two distinct units that produce a page have distinct output paths.
C15_UniqueOutputPath ==
    \A i, j \in Units :
        (i # j /\ Produced(i) /\ Produced(j)) =>
            futures[i].result[2] # futures[j].result[2]

----------------------------------------------------------------------------
(* C16 *)

\* C16 as stated: no unit of work is submitted for a directory entry whose
\* name does not end in .tif.
C16_NonRasterNotSubmitted ==
    \A i \in Units : EndsWith(futures[i].filename, TifExt)

\* C16 amended: a unit of work is submitted for every directory entry, the
\* foreground and background subdirectories included, and counted among the
\* futures; the unit of an entry whose name does not end in .tif returns None
\* at once: it takes no branch, invokes no external program, never occupies a
\* worker across an external call, raises nothing and gives no page.
C16_NonRasterUnitsReturnNone ==
    /\ pc \in {"loop", "shutdown", "assemble"} =>
          {futures[i].filename : i \in Units} = Listdir(fs, inputdir)
    /\ \A i \in Units :
          ~EndsWith(futures[i].filename, TifExt) =>
              /\ futures[i].kind \in {"unknown", "none"}
              /\ futures[i].state # "RUNNING"
              /\ futures[i].log = <<>>
              /\ futures[i].result = None
              /\ futures[i].exc = NoExc

\* A document was assembled in a run in which the unit submitted for the
\* foreground subdirectory was collected
C16_Witness ==
    /\ pc = "done"
    /\ \E i \in Units :
          /\ futures[i].filename = N_foreground
          /\ futures[i].state = "FINISHED"
          /\ Yielded(i)

----------------------------------------------------------------------------
(* C17 *)

\* The external programs of a kind, in the order process_image runs them
KindProgs(kind) ==
    CASE kind = "separated" -> <<"tifftopnm", "tifftopnm", "pbmtodjvurle", "csepdjvu">>
      [] kind = "bitonal" -> <<"cjb2">>
      [] kind = "photo" -> <<"tifftopnm", "c44">>
      [] OTHER -> <<>>

\* The process of a logged invocation exited with 0
Succeeded(entry) == entry.proc.launched /\ entry.proc.returncode = 0

\* C17: the invocations of a unit are an initial part of the sequence of its
\* one kind, no command is invoked twice, and only the last invocation can
\* have failed: after a failed step the unit invokes nothing more, neither
\* the same command again nor a later step nor the encoder of another kind.
\* A unit whose last step failed has ended, with the error run_command raised
\* for that step and with no result; a unit that returns a page ran every
\* step of its kind.
C17_NoRetryNoFallback ==
    \A i \in Units :
        LET u == futures[i]
            n == Len(u.log)
        IN  /\ n <= Len(KindProgs(u.kind))
            /\ \A k \in 1..n : u.log[k].command.prog = KindProgs(u.kind)[k]
            /\ \A j, k \in 1..n : j # k => u.log[j].command # u.log[k].command
            /\ \A k \in 1..(n - 1) : Succeeded(u.log[k])
            /\ (n > 0 /\ ~Succeeded(u.log[n])) =>
                  /\ u.state = "FINISHED"
                  /\ u.result = None
                  /\ u.exc = run_command(u.log[n].command, u.log[n].input, u.log[n].proc).exc
                  /\ u.exc # NoExc
            /\ Produced(i) => (n = Len(KindProgs(u.kind)) /\ u.exc = NoExc)

\* A Separated unit ended with an error at its second step (the foreground
\* conversion), with two invocations in all
C17_Witness ==
    \E i \in Units :
        /\ futures[i].kind = "separated"
        /\ Raised(i)
        /\ Len(futures[i].log) = 2
        /\ ~Succeeded(futures[i].log[2])

----------------------------------------------------------------------------
(* C18 *)

\* C18 as stated: the confirmation is asked only after a page has succeeded.
C18_PromptAfterFirstPage ==
    prompted => \E i \in Units : Produced(i)

\* C18 amended: when the output file exists at the start, the confirmation is
\* asked then, by the first step of main and before any unit is submitted, and
\* in no other step; a run whose confirmation is declined ends at once, with
\* no unit submitted, no program invoked and the old file in place.  The
\* overwrite comes after a page succeeded: a confirmed run invokes djvm only
\* when a unit produced a page.
C18_PromptBeforeProcessing ==
    /\ [][(pc = "begin" /\ outputfile \in fs) => prompted']_vars
    /\ [][(~prompted /\ prompted')
            => (pc = "begin" /\ outputfile \in fs /\ futures = <<>>)]_vars
    /\ []((pc = "submit" /\ futures = <<>> /\ outputfile \in fs) => prompted)
    /\ [](pc = "aborted" =>
            /\ prompted
            /\ futures = <<>>
            /\ calls = <<>>
            /\ outputfile \in fs)
    /\ []((prompted /\ calls # <<>>) => \E i \in Units : Produced(i))

\* The confirmation was declined: the run has ended with nothing processed
C18_Witness ==
    /\ pc = "aborted"
    /\ prompted
    /\ outputfile \in fs
    /\ Listdir(fs, inputdir) # {}
    /\ futures = <<>>

----------------------------------------------------------------------------
(* C19 *)

\* C19: for every output path and temporary directory, the output path that
\* is removed before djvm runs is none of the page paths djvm is given.
C19_OutputIsNoPageArtifact ==
    pc = "djvm" => \A k \in 1..Len(PagePaths) : PagePaths[k] # outputfile

====
